---- MODULE Spec2Model ----
(***************************************************************************)
(* Takeoff-simulation clock, prediction client and alert classifier of     *)
(* the PredictionPanel component (components/prediction-panel.tsx).        *)
(*                                                                         *)
(* Numbers that are floats in the source are fixed-point integers here:    *)
(* RUL values, raw predictions and jitter are in hundredths of a cycle,    *)
(* Math.random() draws are in hundredths, the speed is in 1/45 knot and    *)
(* failure_probability is in sixtieths.                                    *)
(***************************************************************************)
EXTENDS Integers, Sequences, FiniteSets, TLC

----------------------------------------------------------------------------
(* Program constants *)

SIM_DURATION == 50

PREDICT_EVERY == 3

V1_TIME == 45

V1_SPEED == 175

ENGINE_DANGER == 3000

ENGINE_WARNING == 8000

SUB_DANGER == 2500

SUB_WARNING == 6000

FALLBACK_MIN == 500

SubsystemNames == <<"hydraulic", "electrical", "control_surface", "cabin", "altimeter">>

NumSubsystems == Len(SubsystemNames)

----------------------------------------------------------------------------
(* Bounds of the model *)

\* ticks a pending predictSubsystemRUL call may live through before its fetches settle
MaxLag == 3

\* handleEnginePrediction calls that may be pending at once
MaxEngineReqs == 1

----------------------------------------------------------------------------
(* Small helpers *)

None == <<>>

Some(v) == <<v>>

Max(a, b) == IF a >= b THEN a ELSE b

Min(a, b) == IF a <= b THEN a ELSE b

Abs(a) == IF a < 0 THEN 0 - a ELSE a

\* Math.floor on hundredths, result in hundredths
Floor100(x) == (x \div 100) * 100

\* Math.round(rul * 10) / 10 on hundredths (round half up)
RoundTenth(x) == ((x + 5) \div 10) * 10

----------------------------------------------------------------------------
(* Responses of the proxy /api/predict *)

\* a JSON body: each known key is absent (None) or carries a number
Body(pRUL, pOut, pred, r) ==
    [predicted_RUL |-> pRUL, predicted_output |-> pOut, prediction |-> pred, rul |-> r]

EmptyBody == Body(None, None, None, None)

\* JavaScript truthiness of an optional number: undefined and 0 are falsy
Falsy(o) == o = None \/ o[1] = 0

\* a || b
JsOr(a, b) == IF Falsy(a) THEN b ELSE a

\* variant: a body without any of the keys counts as 50
ExtractSubsystemRaw_Default50(body) ==
    JsOr(body.predicted_RUL, JsOr(body.predicted_output, JsOr(body.prediction, JsOr(body.rul, Some(5000)))))[1]

\* result.predicted_RUL || result[`predicted_${name}_output`] || result.prediction || result.rul || 0
ExtractSubsystemRaw(body) ==
    JsOr(body.predicted_RUL, JsOr(body.predicted_output, JsOr(body.prediction, JsOr(body.rul, Some(0)))))[1]

\* result.predicted_engine_output || result.prediction || 0
ExtractEngineRaw(body) ==
    JsOr(body.predicted_output, JsOr(body.prediction, Some(0)))[1]

----------------------------------------------------------------------------
(* Prediction client: normalisation and classification of a subsystem RUL *)

\* degradationFactor * k with degradationFactor = Math.min(time / 50, 1), in hundredths
Degradation(time, k) == (Min(time, SIM_DURATION) * k * 100) \div SIM_DURATION

\* variant: the branch for a negative raw value forgets Math.min(20, ...)
NormalizeRUL_NoCap(raw, time, jitter) ==
    LET r == IF raw < 0
                THEN Max(100, Abs(raw) + jitter - Degradation(time, 5))
             ELSE IF raw > 20000
                THEN Min(raw - Degradation(time, 20) + jitter, 15000)
             ELSE Max(100, raw - Degradation(time, 10) + jitter)
    IN  Max(100, r)

NormalizeRUL(raw, time, jitter) ==
    LET r == IF raw < 0
                THEN Max(100, Min(2000, Abs(raw) + jitter - Degradation(time, 5)))
             ELSE IF raw > 20000
                THEN Min(raw - Degradation(time, 20) + jitter, 15000)
             ELSE Max(100, raw - Degradation(time, 10) + jitter)
    IN  Max(100, r)

SubsystemRisk(rul) ==
    IF rul < SUB_DANGER THEN "danger"
    ELSE IF rul < SUB_WARNING THEN "warning"
    ELSE "safe"

StatusOf(risk) ==
    IF risk = "danger" THEN "Critical Condition"
    ELSE IF risk = "warning" THEN "Monitor Closely"
    ELSE "Normal Operation"

\* the entry pushed for a successful response
SuccessPrediction(name, body, time, jitter) ==
    LET rul == NormalizeRUL(ExtractSubsystemRaw(body), time, jitter)
        risk == SubsystemRisk(rul)
    IN  [subsystem |-> name,
         rul |-> RoundTenth(rul),
         risk_level |-> risk,
         status |-> StatusOf(risk),
         failure_probability |-> IF rul < SUB_DANGER THEN 48 ELSE IF rul < SUB_WARNING THEN 18 ELSE 6,
         cycle |-> time]

----------------------------------------------------------------------------
(* Fallback generator *)

\* per subsystem: <<slope, spread>> of the 10-20 s band
Band2 == [hydraulic |-> <<45, 10>>, electrical |-> <<30, 8>>, control_surface |-> <<40, 15>>,
          cabin |-> <<20, 5>>, altimeter |-> <<35, 10>>]

\* per subsystem: <<base, slope, spread>> of the critical band (> 20 s)
Band3 == [hydraulic |-> <<75, 50, 15>>, electrical |-> <<90, 45, 12>>, control_surface |-> <<80, 60, 10>>,
          cabin |-> <<100, 30, 8>>, altimeter |-> <<85, 50, 12>>]

\* non-OK branch, 10-20 s: <<progression threshold in tenths, probability in hundredths>>, <<10, 0>> = never
Fail2 == [hydraulic |-> <<7, 10>>, electrical |-> <<10, 0>>, control_surface |-> <<8, 5>>,
          cabin |-> <<10, 0>>, altimeter |-> <<10, 0>>]

\* non-OK branch, > 20 s: <<criticalProgression threshold in tenths, base probability, slope>> in hundredths
Fail3 == [hydraulic |-> <<3, 15, 20>>, electrical |-> <<5, 10, 15>>, control_surface |-> <<4, 12, 25>>,
          cabin |-> <<7, 5, 8>>, altimeter |-> <<6, 8, 12>>]

\* catch branch: one rule for every subsystem
CatchFail2 == <<7, 5>>

CatchFail3 == <<4, 10, 15>>

\* 25 * criticalProgression = 25 * Math.min((time - 20) / 25, 1)
Critical25(time) == Min(time - 20, 25)

\* currentRul before the minimum; r is the Math.random() draw in hundredths
FallbackRawRUL(name, time, r) ==
    IF time <= 10 THEN 12000 - Floor100(r * 5)
    ELSE IF time <= 20 THEN Floor100(12000 - (time - 10) * Band2[name][1] * 10 - r * Band2[name][2])
    ELSE Floor100(Band3[name][1] * 100 - Critical25(time) * Band3[name][2] * 4 - r * Band3[name][3])

FallbackRUL(name, time, r) == Max(FALLBACK_MIN, FallbackRawRUL(name, time, r))

\* progression > th && Math.random() < p   /  criticalProgression > th && Math.random() < base + cp * slope
FailureRoll(f2, f3, time, r) ==
    IF time <= 10 THEN FALSE
    ELSE IF time <= 20 THEN (time - 10) > f2[1] /\ r < f2[2]
    ELSE Critical25(time) * 10 > f3[1] * 25 /\ r * 25 < f3[2] * 25 + Critical25(time) * f3[3]

FallbackRisk(failure, rul) ==
    IF failure \/ rul < SUB_DANGER THEN "danger"
    ELSE IF rul < SUB_WARNING THEN "warning"
    ELSE "safe"

FallbackEntry(name, time, rul, failure) ==
    LET risk == FallbackRisk(failure, rul)
    IN  [subsystem |-> name,
         rul |-> rul,
         risk_level |-> risk,
         status |-> StatusOf(risk),
         failure_probability |-> IF failure THEN 60 ELSE IF rul < SUB_WARNING THEN (SUB_WARNING - rul) \div 100 ELSE 0,
         cycle |-> time]

\* the entry pushed when the response is not OK (r1: RUL draw, r2: failure draw)
HttpErrorPrediction(name, time, r1, r2) ==
    FallbackEntry(name, time, FallbackRUL(name, time, r1), FailureRoll(Fail2[name], Fail3[name], time, r2))

\* the entry pushed when fetch (or reading the body) throws
NetworkErrorPrediction(name, time, r1, r2) ==
    FallbackEntry(name, time, FallbackRUL(name, time, r1), FailureRoll(CatchFail2, CatchFail3, time, r2))

----------------------------------------------------------------------------
(* Inputs of the model: what the remote service answers, what Math.random() draws *)

Ok(body) == [kind |-> "ok", body |-> body]

HttpError == [kind |-> "http_error", body |-> EmptyBody]

NetworkError == [kind |-> "network_error", body |-> EmptyBody]

Endpoints == {"engine", "hydraulic", "electrical", "control_surface", "cabin", "altimeter"}

\* {"predicted_RUL": 85}
SubBody85 == Body(Some(8500), None, None, None)

\* {"predicted_engine_output": 100}
EngineBody100 == Body(None, Some(10000), None, None)

\* Conditions of the remote service: what each /predict/{subsystem} endpoint answers
Failing == [engine |-> NetworkError, hydraulic |-> HttpError, electrical |-> NetworkError,
            control_surface |-> HttpError, cabin |-> NetworkError, altimeter |-> HttpError]

MixedA == [engine |-> HttpError, hydraulic |-> Ok(SubBody85), electrical |-> HttpError,
           control_surface |-> Ok(EmptyBody), cabin |-> NetworkError, altimeter |-> Ok(SubBody85)]

MixedB == [engine |-> Ok(EngineBody100), hydraulic |-> HttpError, electrical |-> Ok(SubBody85),
           control_surface |-> NetworkError, cabin |-> Ok(SubBody85), altimeter |-> HttpError]

Deployments == {Failing, MixedA, MixedB}

\* (Math.random() - 0.5) * 2 of the normalisation, in hundredths
JitterVals == {-100}

\* Math.random() draws of the fallback generator, in hundredths
RandVals == {3}

\* the draws a behaviour meets: jitter of the normalisation, r1 (RUL) and r2 (failure)
\* of the fallback generator
Draws == [jitter : JitterVals, r1 : RandVals, r2 : RandVals]

----------------------------------------------------------------------------
(* Sequence builder. A sensor value is a JavaScript number: finite (an integer
   number of thousandths) or one of NaN, Infinity, -Infinity. *)

SEQUENCE_LENGTH == 50

Fin(n) == <<"finite", n>>

NaN == <<"NaN", 0>>

PlusInfinity == <<"Infinity", 0>>

MinusInfinity == <<"-Infinity", 0>>

\* Number.isFinite(x)
IsFinite(x) == x[1] = "finite"

\* x + d for a finite d
JsAdd(x, d) == IF IsFinite(x) THEN Fin(x[2] + d) ELSE x

\* Math.max(x, m) for a finite m
JsMax(x, m) ==
    IF IsFinite(x) THEN Fin(Max(x[2], m))
    ELSE IF x = MinusInfinity THEN Fin(m)
    ELSE x

\* (Math.random() - 0.5) * k, k in thousandths, r the draw in hundredths
Noise(r, k) == ((r - 50) * k) \div 100

\* useState<SubsystemSensorData>({...}), in thousandths
DefaultReading ==
    [hydraulic_pressure |-> Fin(3000000), hydraulic_flow |-> Fin(8500),
     hydraulic_temp |-> Fin(120000), electrical_voltage |-> Fin(28500),
     electrical_current |-> Fin(15000), control_surface_deflection |-> Fin(5000),
     cabin_pressure |-> Fin(14700), altimeter_drift |-> Fin(2000)]

\* the row pushed for one timestep (none for a name the builder does not know)
Rows(name, data, timestep, r) ==
    LET back == 49 - timestep
    IN  IF name = "hydraulic" THEN
            <<<<JsMax(JsAdd(data.hydraulic_pressure, Noise(r, 10000) - back * 2000), 2500000),
                JsMax(JsAdd(data.hydraulic_flow, Noise(r, 500) - back * 100), 6000),
                JsMax(JsAdd(data.hydraulic_temp, Noise(r, 2000) - back * 1000), 70000)>>>>
        ELSE IF name = "electrical" THEN
            <<<<JsMax(JsAdd(data.electrical_voltage, Noise(r, 100) - back * 20), 24000),
                JsMax(JsAdd(data.electrical_current, Noise(r, 500) - back * 200), 5000)>>>>
        ELSE IF name = "control_surface" THEN
            <<<<JsMax(JsAdd(data.control_surface_deflection, Noise(r, 500) - back * 100), -10000)>>>>
        ELSE IF name = "cabin" THEN
            <<<<JsMax(JsAdd(data.cabin_pressure, Noise(r, 10) - back), 14500)>>>>
        ELSE IF name = "altimeter" THEN
            <<<<JsAdd(data.altimeter_drift, Noise(r, 100) - back * 20)>>>>
        ELSE <<>>

\* the array after the loop over the timesteps 0 .. n-1
RECURSIVE Pushed(_, _, _, _)
Pushed(name, data, n, r) ==
    IF n = 0 THEN <<>>
    ELSE Pushed(name, data, n - 1, r) \o Rows(name, data, n - 1, r)

\* sequence.some(timestep => timestep.some(value => !Number.isFinite(value) || isNaN(value)))
HasInvalidData(sequence) ==
    \E i \in 1..Len(sequence) : \E j \in 1..Len(sequence[i]) : ~IsFinite(sequence[i][j])

\* variant: the check for invalid numbers is missing
createSubsystemSequence_Unchecked(name, data, r) ==
    LET sequence == Pushed(name, data, SEQUENCE_LENGTH, r)
    IN  IF Len(sequence) # SEQUENCE_LENGTH THEN <<>> ELSE sequence

createSubsystemSequence(name, data, r) ==
    LET sequence == Pushed(name, data, SEQUENCE_LENGTH, r)
    IN  IF Len(sequence) # SEQUENCE_LENGTH THEN <<>>
        ELSE IF HasInvalidData(sequence) THEN <<>>
        ELSE sequence

\* if (!system.sequence || system.sequence.length === 0) continue: the fetch is reached
FetchIssued(sequence) == Len(sequence) # 0

\* no createSubsystemSequence call yet
NotBuilt == [name |-> "none", sequence |-> <<>>, called |-> FALSE]

----------------------------------------------------------------------------
(* Proxy route: POST /api/predict *)

ENGINE_FEATURES == 24

\* a JSON value found under "sequence": kind is "absent", "null", "number" (not 0),
\* "string" or "array"; len is its length (0 for a value without one)
Json(kind, len) == [kind |-> kind, len |-> len]

\* !sequence
FalsySequence(sequence) ==
    \/ sequence.kind \in {"absent", "null"}
    \/ sequence.kind = "string" /\ sequence.len = 0

\* !subsystem, for None (no such key) or Some(string)
FalsySubsystem(subsystem) == subsystem = None \/ subsystem = Some("")

\* await request.json() and the destructuring of its result throw
ParseThrows(request) == request.parsed \in {"unparseable", "null"}

\* !Array.isArray(sequence) || sequence.length !== expected
BadLength(subsystem, sequence) ==
    \/ sequence.kind # "array"
    \/ sequence.len # (IF subsystem = Some("engine") THEN ENGINE_FEATURES ELSE SEQUENCE_LENGTH)

\* the status POST answers with before any fetch, 0 when it goes on to the fetch
Validate(request) ==
    IF ParseThrows(request) THEN 500
    ELSE IF FalsySubsystem(request.subsystem) \/ FalsySequence(request.sequence) THEN 400
    ELSE IF BadLength(request.subsystem, request.sequence) THEN 400
    ELSE 0

\* variant: a response that is not OK is relayed like a successful one
RelayStatus_IgnoresOk(answer) == IF answer \in {"ok_json", "http_error"} THEN 200 ELSE 500

\* the status POST answers with once its fetch has settled: 200 with the data of a
\* successful JSON response; a response that is not OK, a fetch that throws and a body
\* that response.json() cannot read all end in the catch block
RelayStatus(answer) == IF answer = "ok_json" THEN 200 ELSE 500

\* no POST has been received
NoPost ==
    [request |-> [parsed |-> "object", subsystem |-> None, sequence |-> Json("absent", 0)],
     answers |-> "none", phase |-> "idle", calls |-> <<>>, status |-> 0, relayed |-> FALSE]

----------------------------------------------------------------------------
(* State *)

VARIABLES
    isSimulating,          \* useState(false)
    isPaused,              \* useState(false)
    simulationTime,        \* useState(0)
    currentSpeed,          \* useState(0), in 1/45 knot
    alertLevel,            \* useState('safe')
    lastRUL,               \* useState(null): None or Some(value)
    enginePrediction,      \* useState(null): None or Some(prediction)
    subsystemPredictions,  \* useState([])
    loading,               \* useState(false)
    error,                 \* useState(null): "null" or the message shown in the banner
    interval,              \* the setInterval timer of the simulation effect is armed
    upstream,              \* what the remote service answers, per endpoint
    engineReqs,            \* pending handleEnginePrediction calls, by caller
    cycles,                \* pending predictSubsystemRUL calls: time, awaited subsystem, collected entries
    cycleLog,              \* times logged "Making predictions" since the last start
    reading,               \* the subsystemSensorData a createSubsystemSequence call reads
    built,                 \* the latest createSubsystemSequence call: name, result, fetch issued
    random,                \* the Math.random() draws of the calls: jitter, r1, r2
    listening,             \* a consumer has its simulationUpdate listener attached
    dispatched,            \* alertLevel of each simulationUpdate event the latest step delivered
    proxy                  \* the POST the proxy route is handling: request, upstream calls, answer

vars == <<isSimulating, isPaused, simulationTime, currentSpeed, alertLevel, lastRUL,
          enginePrediction, subsystemPredictions, loading, error, interval,
          upstream, engineReqs, cycles, cycleLog, reading, built,
          random, listening, dispatched, proxy>>

Init ==
    /\ isSimulating = FALSE
    /\ isPaused = FALSE
    /\ simulationTime = 0
    /\ currentSpeed = 0
    /\ alertLevel = "safe"
    /\ lastRUL = None
    /\ enginePrediction = None
    /\ subsystemPredictions = <<>>
    /\ loading = FALSE
    /\ error = "null"
    /\ interval = FALSE
    /\ upstream \in Deployments
    /\ engineReqs = [auto |-> 0, manual |-> 0]
    /\ cycles = <<>>
    /\ cycleLog = {}
    /\ reading = DefaultReading
    /\ built = NotBuilt
    /\ random \in Draws
    /\ listening = FALSE
    /\ dispatched = <<>>
    /\ proxy = NoPost

----------------------------------------------------------------------------
(* Effects that run after every commit *)

EngineTier(rul) ==
    IF rul < ENGINE_DANGER THEN "danger"
    ELSE IF rul < ENGINE_WARNING THEN "warning"
    ELSE "safe"

\* the forEach over subsystemPredictions of the alert effect
RECURSIVE FoldSubsystems(_, _)
FoldSubsystems(level, preds) ==
    IF preds = <<>> THEN level
    ELSE LET pred == Head(preds)
             next == IF pred.rul < ENGINE_DANGER /\ level # "danger" THEN "danger"
                     ELSE IF pred.rul < ENGINE_WARNING /\ level = "safe" THEN "warning"
                     ELSE level
         IN  FoldSubsystems(next, Tail(preds))

NewAlertLevel(currentRUL, preds) == FoldSubsystems(EngineTier(currentRUL), preds)

\* one run of the alert effect: <<alertLevel, lastRUL>> after it
AlertEffect(ep, preds, sim, last, alert) ==
    IF ep # None /\ sim
    THEN <<IF last # None /\ NewAlertLevel(ep[1], preds) # alert
           THEN NewAlertLevel(ep[1], preds) ELSE alert, Some(ep[1])>>
    ELSE <<alert, last>>

\* the effect re-runs while its dependencies (lastRUL, alertLevel) change
AlertSettled(ep, preds, sim, first) == AlertEffect(ep, preds, sim, first[2], first[1])

\* variant: the effect does not look at isPaused
IntervalEffect_IgnoresPause(sim, paused) == sim

\* the simulation effect arms the timer iff isSimulating && !isPaused, its cleanup clears it
IntervalEffect(sim, paused) == sim /\ ~paused

\* the state the current render shows, as a record of the values a handler may write
Rendered ==
    [sim |-> isSimulating, paused |-> isPaused, time |-> simulationTime, speed |-> currentSpeed,
     alert |-> alertLevel, ep |-> enginePrediction, preds |-> subsystemPredictions]

\* variant: the dependency list of the broadcast effect lacks the time and the speed
BroadcastDeps_NoClock(w) == <<w.sim, w.paused, w.alert, w.ep, w.preds>>

\* dependencies of the broadcast effect, for the values w of a render
BroadcastDeps(w) == <<w.sim, w.paused, w.alert, w.speed, w.time, w.ep, w.preds>>

\* Events dispatched while the writes w of a handler are committed: the broadcast
\* effect runs in the render that shows w when one of its dependencies changed
\* (fresh: the handler stored a new prediction object), and again in each re-render
\* caused by a setAlertLevel of the alert effect.
Dispatches(w, fresh, first, settled) ==
    (IF fresh \/ BroadcastDeps(w) # BroadcastDeps(Rendered) THEN <<w.alert>> ELSE <<>>)
    \o (IF first # w.alert THEN <<first>> ELSE <<>>)
    \o (IF settled # first THEN <<settled>> ELSE <<>>)

\* The timer callback calls the handleEnginePrediction and predictSubsystemRUL of the
\* render in which the simulation effect armed the timer, and these read the
\* engineSensorData and subsystemSensorData of that render. Every tick up to 50 stores
\* new readings (updateEngineParameters, updateSubsystemParameters): once the run has
\* ticked, the readings of the render of start() are outdated.
OutdatedSinceStart == interval /\ simulationTime > 0

\* commit of a render: state written by the handler, then the effects
CommitWith(w, fresh) ==
    \E first \in {AlertEffect(w.ep, w.preds, w.sim, lastRUL, w.alert)} :
    \E settled \in {AlertSettled(w.ep, w.preds, w.sim, first)} :
        /\ isSimulating' = w.sim
        /\ isPaused' = w.paused
        /\ simulationTime' = w.time
        /\ currentSpeed' = w.speed
        /\ enginePrediction' = w.ep
        /\ subsystemPredictions' = w.preds
        /\ alertLevel' = settled[1]
        /\ lastRUL' = settled[2]
        /\ interval' = IntervalEffect(w.sim, w.paused)
        /\ random' = random
        /\ reading' = reading
        /\ built' = built
        /\ proxy' = proxy
        /\ listening' = listening
        /\ dispatched' = IF listening THEN Dispatches(w, fresh, first[1], settled[1]) ELSE <<>>

Commit(w) == CommitWith(w, FALSE)

\* the detail of the simulationUpdate event dispatched for the current render
Snapshot ==
    [isSimulating |-> isSimulating, isPaused |-> isPaused, alertLevel |-> alertLevel,
     currentSpeed |-> currentSpeed, simulationTime |-> simulationTime,
     rulValue |-> enginePrediction, subsystemPredictions |-> subsystemPredictions]

\* the details of the events the latest step delivered to the listener, in order
Broadcasts == [k \in 1..Len(dispatched) |-> [Snapshot EXCEPT !.alertLevel = dispatched[k]]]

----------------------------------------------------------------------------
(* Consumers of the simulationUpdate event: the sidebar's handleSimulationUpdate.
   An alert list is given by the risk of the engine alert and the risk of the alert
   of each subsystem prediction, "none" where the list has no such alert. *)

ALERT_CRITICAL == 3000

ALERT_MODERATE == 8000

\* if (rul < 30) critical else if (rul < 80) moderate
AlertRisk(rul) ==
    IF rul < ALERT_CRITICAL THEN "critical"
    ELSE IF rul < ALERT_MODERATE THEN "moderate"
    ELSE "none"

\* the sidebar with subsystem alerts: newAlerts for the event detail data
SubsystemSidebarAlerts(data) ==
    IF data.isSimulating
    THEN [engine |-> IF data.rulValue # None THEN AlertRisk(data.rulValue[1]) ELSE "none",
          subsystems |-> [j \in 1..Len(data.subsystemPredictions) |->
                              AlertRisk(data.subsystemPredictions[j].rul)]]
    ELSE [engine |-> "none",
          subsystems |-> [j \in 1..Len(data.subsystemPredictions) |-> "none"]]

\* the sidebar of components/aviation-sidebar.tsx, whose list was alerts before the
\* event: an engine alert at most, and only when the alert level goes with it; the list
\* is left as it was when a running simulation sends no engine RUL; no alert is ever
\* pushed for a subsystem
EngineSidebarAlerts(data, alerts) ==
    IF data.isSimulating /\ data.rulValue # None
    THEN [engine |-> IF data.alertLevel = "danger" /\ data.rulValue[1] < ALERT_CRITICAL THEN "critical"
                     ELSE IF data.alertLevel = "warning" /\ data.rulValue[1] < ALERT_MODERATE THEN "moderate"
                     ELSE "none",
          subsystems |-> [j \in 1..Len(data.subsystemPredictions) |-> "none"]]
    ELSE IF ~data.isSimulating
    THEN [engine |-> "none", subsystems |-> [j \in 1..Len(data.subsystemPredictions) |-> "none"]]
    ELSE [engine |-> alerts, subsystems |-> [j \in 1..Len(data.subsystemPredictions) |-> "none"]]

----------------------------------------------------------------------------
(* Handlers *)

PendingEngineReqs == engineReqs.auto + engineReqs.manual

\* setLoading(true); setError(null); fetch('/api/predict', engine)
StartEngineRequest(caller) ==
    /\ loading' = TRUE
    /\ error' = "null"
    /\ engineReqs' = [engineReqs EXCEPT ![caller] = @ + 1]

\* the timer fires while the pending prediction cycles are within the latency bound
WithinLag == \A i \in 1..Len(cycles) : cycles[i].age < MaxLag

\* pending cycles after one more tick
Aged(cs) == [i \in 1..Len(cs) |-> [cs[i] EXCEPT !.age = @ + 1]]

\* variant: the updater advances by two
NewTime_Skips(prev) == prev + 2

\* const newTime = prev + 1
NewTime(prev) == prev + 1

\* speed of the takeoff profile at newTime, in 1/45 knot
TakeoffSpeed(newTime) ==
    IF newTime <= V1_TIME THEN Min(V1_SPEED * V1_TIME, newTime * V1_SPEED)
    ELSE V1_SPEED * V1_TIME

\* variant: the modulus test is off by one
CycleDue_Shifted(newTime) == newTime <= SIM_DURATION /\ newTime % PREDICT_EVERY = 1

\* a tick starts a prediction cycle: newTime <= 50 and newTime % 3 === 0
CycleDue(newTime) == newTime <= SIM_DURATION /\ newTime % PREDICT_EVERY = 0

\* Value of simulationTime after the tick that ends the run: the updater queues
\* setSimulationTime(0) and then returns newTime; which of the two updates is applied
\* last depends on whether React ran the updater eagerly or during the render.
CompletionTime(newTime) == {0, newTime}

\* variant: start forgets setEnginePrediction(null)
StartWrites_KeepsPrediction ==
    [sim |-> TRUE, paused |-> FALSE, time |-> 0, speed |-> 0,
     alert |-> "safe", ep |-> enginePrediction, preds |-> <<>>]

\* Start button while idle: "Starting simulation - reset to safe state"
StartWrites ==
    [sim |-> TRUE, paused |-> FALSE, time |-> 0, speed |-> 0,
     alert |-> "safe", ep |-> None, preds |-> <<>>]

\* variant: stop forgets setSubsystemPredictions([])
StopWrites_KeepsSubsystems ==
    [sim |-> FALSE, paused |-> FALSE, time |-> 0, speed |-> 0,
     alert |-> "safe", ep |-> None, preds |-> subsystemPredictions]

\* variant: stop forgets setIsPaused(false)
StopWrites_KeepsPause ==
    [sim |-> FALSE, paused |-> isPaused, time |-> 0, speed |-> 0,
     alert |-> "safe", ep |-> None, preds |-> <<>>]

\* variant: stop resets the time only when it interrupts a run
StopWrites_ResetsOnce ==
    [sim |-> FALSE, paused |-> FALSE, time |-> IF isSimulating THEN 0 ELSE simulationTime + 1,
     speed |-> 0, alert |-> "safe", ep |-> None, preds |-> <<>>]

\* Stop button while simulating: "Stopping simulation - reset everything"
StopWrites ==
    [sim |-> FALSE, paused |-> FALSE, time |-> 0, speed |-> 0,
     alert |-> "safe", ep |-> None, preds |-> <<>>]

\* "End simulation after 50 seconds", with t the value simulationTime ends up with
CompletionWrites(t) ==
    [sim |-> FALSE, paused |-> FALSE, time |-> t, speed |-> 0,
     alert |-> "safe", ep |-> None, preds |-> <<>>]

Start ==
    /\ ~loading
    /\ ~isSimulating
    /\ Commit(StartWrites)
    /\ cycleLog' = {}
    /\ UNCHANGED <<loading, error, upstream, engineReqs, cycles>>

\* the Start/Stop button accepts a click: disabled={loading}
StopEnabled == ~loading

Stop ==
    /\ StopEnabled
    /\ isSimulating
    /\ Commit(StopWrites)
    /\ UNCHANGED <<loading, error, upstream, engineReqs, cycles, cycleLog>>

\* Pause/Resume button: setIsPaused(!isPaused)
Pause ==
    /\ isSimulating
    /\ ~isPaused
    /\ Commit([Rendered EXCEPT !.paused = TRUE])
    /\ UNCHANGED <<loading, error, upstream, engineReqs, cycles, cycleLog>>

Resume ==
    /\ isSimulating
    /\ isPaused
    /\ Commit([Rendered EXCEPT !.paused = FALSE])
    /\ UNCHANGED <<loading, error, upstream, engineReqs, cycles, cycleLog>>

\* Manual Predict button
ManualPredict ==
    /\ ~loading
    /\ ~(isSimulating /\ ~isPaused)
    /\ PendingEngineReqs < MaxEngineReqs
    /\ StartEngineRequest("manual")
    /\ Commit(Rendered)
    /\ UNCHANGED <<upstream, cycles, cycleLog>>

\* setInterval callback, newTime <= 50 and no prediction due
TickPlain ==
    /\ interval
    /\ WithinLag
    /\ LET newTime == NewTime(simulationTime)
       IN  /\ newTime <= SIM_DURATION
           /\ ~CycleDue(newTime)
           /\ Commit([Rendered EXCEPT !.time = newTime, !.speed = TakeoffSpeed(newTime)])
    /\ cycles' = Aged(cycles)
    /\ UNCHANGED <<loading, error, upstream, engineReqs, cycleLog>>

\* setInterval callback, newTime <= 50 and a prediction due:
\* handleEnginePrediction() and predictSubsystemRUL(newTime) are started
TickPredict ==
    /\ interval
    /\ WithinLag
    /\ PendingEngineReqs < MaxEngineReqs
    /\ LET newTime == NewTime(simulationTime)
       IN  /\ newTime <= SIM_DURATION
           /\ CycleDue(newTime)
           /\ StartEngineRequest("auto")
           /\ cycles' = Append(Aged(cycles), [time |-> newTime, age |-> 0, idx |-> 1, preds |-> <<>>])
           /\ cycleLog' = cycleLog \cup {newTime}
           /\ Commit([Rendered EXCEPT !.time = newTime, !.speed = TakeoffSpeed(newTime)])
    /\ UNCHANGED upstream

\* setInterval callback, newTime > 50: the run ends
TickComplete ==
    /\ interval
    /\ WithinLag
    /\ LET newTime == NewTime(simulationTime)
       IN  /\ newTime > SIM_DURATION
           /\ \E t \in CompletionTime(newTime) : Commit(CompletionWrites(t))
    /\ cycles' = Aged(cycles)
    /\ UNCHANGED <<loading, error, upstream, engineReqs, cycleLog>>

\* what the catch block of handleEnginePrediction passes to setError
EngineErrorMessage(kind) ==
    IF kind = "network_error" THEN "Network error" ELSE "Engine API Error"

\* handleEnginePrediction after its fetch settles
EngineResponse ==
    \E caller \in {"auto", "manual"} :
        LET response == upstream["engine"]
        IN  /\ engineReqs[caller] > 0
            /\ engineReqs' = [engineReqs EXCEPT ![caller] = @ - 1]
            /\ loading' = FALSE
            /\ IF response.kind = "ok"
               THEN /\ error' = error
                    /\ CommitWith([Rendered EXCEPT !.ep = Some(ExtractEngineRaw(response.body))], TRUE)
               ELSE /\ error' = EngineErrorMessage(response.kind)
                    /\ Commit(Rendered)
            /\ UNCHANGED <<upstream, cycles, cycleLog>>

\* the entry predictSubsystemRUL pushes for one subsystem
SubsystemEntry(name, time, response, jitter, r1, r2) ==
    IF response.kind = "ok" THEN SuccessPrediction(name, response.body, time, jitter)
    ELSE IF response.kind = "http_error" THEN HttpErrorPrediction(name, time, r1, r2)
    ELSE NetworkErrorPrediction(name, time, r1, r2)

\* variant: the entry of a subsystem is pushed twice
Collected_Twice(preds, name, time, response, jitter, r1, r2) ==
    Append(Append(preds, SubsystemEntry(name, time, response, jitter, r1, r2)),
           SubsystemEntry(name, time, response, jitter, r1, r2))

\* variant: a fetch that throws leaves no entry for its subsystem
Collected_DropsOnThrow(preds, name, time, response, jitter, r1, r2) ==
    IF response.kind = "network_error" THEN preds
    ELSE Append(preds, SubsystemEntry(name, time, response, jitter, r1, r2))

\* the predictions array after the loop body for one subsystem
Collected(preds, name, time, response, jitter, r1, r2) ==
    Append(preds, SubsystemEntry(name, time, response, jitter, r1, r2))

RemoveAt(seq, i) == SubSeq(seq, 1, i - 1) \o SubSeq(seq, i + 1, Len(seq))

\* predictSubsystemRUL after the fetch of its current subsystem settles; after the
\* last subsystem the collected entries are published
SubsystemResponse ==
    \E i \in 1..Len(cycles) :
        LET c == cycles[i]
            name == SubsystemNames[c.idx]
            predictions == Collected(c.preds, name, c.time, upstream[name],
                                     random.jitter, random.r1, random.r2)
        IN  /\ IF c.idx < NumSubsystems
               THEN /\ cycles' = [cycles EXCEPT ![i] = [c EXCEPT !.idx = c.idx + 1, !.preds = predictions]]
                    /\ Commit(Rendered)
               ELSE /\ cycles' = RemoveAt(cycles, i)
                    /\ CommitWith([Rendered EXCEPT !.preds = predictions], TRUE)
            /\ UNCHANGED <<loading, error, upstream, engineReqs, cycleLog>>

Next ==
    \/ Start
    \/ Stop
    \/ Pause
    \/ Resume
    \/ ManualPredict
    \/ TickPlain
    \/ TickPredict
    \/ TickComplete
    \/ EngineResponse
    \/ SubsystemResponse

Spec == Init /\ [][Next]_vars

\* Scenario A: every remote call fails; start() and then the run is left alone
InitA == Init /\ upstream = Failing

NextA ==
    \/ Start
    \/ TickPlain
    \/ TickPredict
    \/ TickComplete
    \/ EngineResponse
    \/ SubsystemResponse

ScenarioA == InitA /\ [][NextA]_vars

\* {"prediction": 15}
EngineBody15 == Body(None, None, Some(1500), None)

\* Scenario B: the engine endpoint answers {"prediction": 15}
Critical == [MixedB EXCEPT !["engine"] = Ok(EngineBody15)]

\* the panel with a listener attached: the mount render has dispatched its event
InitObserved ==
    /\ isSimulating = FALSE
    /\ isPaused = FALSE
    /\ simulationTime = 0
    /\ currentSpeed = 0
    /\ alertLevel = "safe"
    /\ lastRUL = None
    /\ enginePrediction = None
    /\ subsystemPredictions = <<>>
    /\ loading = FALSE
    /\ error = "null"
    /\ interval = FALSE
    /\ upstream = Critical
    /\ engineReqs = [auto |-> 0, manual |-> 0]
    /\ cycles = <<>>
    /\ cycleLog = {}
    /\ reading = DefaultReading
    /\ built = NotBuilt
    /\ random \in Draws
    /\ listening = TRUE
    /\ dispatched = <<"safe">>
    /\ proxy = NoPost

Observed == InitObserved /\ [][Next]_vars

\* {"predicted_RUL": v}, v in hundredths
SubBody(v) == Body(Some(v), None, None, None)

\* raw predictions below zero, missing and small
ProbeLow ==
    [engine |-> Ok(EmptyBody), hydraulic |-> Ok(SubBody(-1)), electrical |-> Ok(SubBody(-5000)),
     control_surface |-> Ok(SubBody(-700)), cabin |-> Ok(EmptyBody), altimeter |-> Ok(SubBody(50))]

\* raw predictions around 200 and around the tier boundaries 25 and 60
ProbeHigh ==
    [engine |-> Ok(Body(None, None, Some(-300), None)), hydraulic |-> Ok(SubBody(20000)),
     electrical |-> Ok(SubBody(20001)), control_surface |-> Ok(SubBody(50000)),
     cabin |-> Ok(SubBody(2656)), altimeter |-> Ok(SubBody(6156))]

ProbeDeployments == {ProbeLow, ProbeHigh, Failing}

ProbeDraws ==
    {[jitter |-> -100, r1 |-> 0, r2 |-> 0], [jitter |-> 0, r1 |-> 3, r2 |-> 50],
     [jitter |-> 99, r1 |-> 99, r2 |-> 99], [jitter |-> -100, r1 |-> 99, r2 |-> 0]}

\* an unattended run for each probed answer of the service and each probed draw
InitProbe ==
    /\ isSimulating = FALSE
    /\ isPaused = FALSE
    /\ simulationTime = 0
    /\ currentSpeed = 0
    /\ alertLevel = "safe"
    /\ lastRUL = None
    /\ enginePrediction = None
    /\ subsystemPredictions = <<>>
    /\ loading = FALSE
    /\ error = "null"
    /\ interval = FALSE
    /\ upstream \in ProbeDeployments
    /\ engineReqs = [auto |-> 0, manual |-> 0]
    /\ cycles = <<>>
    /\ cycleLog = {}
    /\ reading = DefaultReading
    /\ built = NotBuilt
    /\ random \in ProbeDraws
    /\ listening = FALSE
    /\ dispatched = <<>>
    /\ proxy = NoPost

Probe == InitProbe /\ [][NextA]_vars

\* response bodies that carry several of the keys, or a key with the value 0
KeysA ==
    [engine |-> Ok(Body(Some(9000), None, Some(4000), None)),
     hydraulic |-> Ok(Body(Some(0), None, Some(4000), None)),
     electrical |-> Ok(Body(None, Some(7000), Some(4000), Some(3000))),
     control_surface |-> Ok(Body(None, None, None, Some(3000))),
     cabin |-> Ok(Body(None, None, Some(4000), Some(3000))),
     altimeter |-> Ok(Body(Some(8500), Some(7000), Some(4000), Some(3000)))]

KeysB ==
    [engine |-> Ok(Body(None, None, None, Some(5000))),
     hydraulic |-> Ok(Body(Some(8500), None, None, Some(3000))),
     electrical |-> Ok(Body(None, Some(0), None, Some(3000))),
     control_surface |-> Ok(Body(None, Some(7000), None, None)),
     cabin |-> Ok(EmptyBody),
     altimeter |-> Ok(Body(None, None, Some(4000), None))]

KeysC ==
    [engine |-> Ok(Body(None, Some(7000), Some(4000), None)),
     hydraulic |-> Ok(Body(None, None, Some(4000), Some(3000))),
     electrical |-> Ok(SubBody85),
     control_surface |-> Ok(Body(Some(8500), Some(7000), None, None)),
     cabin |-> Ok(Body(None, None, None, Some(3000))),
     altimeter |-> Ok(Body(None, Some(7000), None, Some(3000)))]

KeyDeployments == {KeysA, KeysB, KeysC}

\* an unattended run for each probed set of response bodies
InitKeys ==
    /\ isSimulating = FALSE
    /\ isPaused = FALSE
    /\ simulationTime = 0
    /\ currentSpeed = 0
    /\ alertLevel = "safe"
    /\ lastRUL = None
    /\ enginePrediction = None
    /\ subsystemPredictions = <<>>
    /\ loading = FALSE
    /\ error = "null"
    /\ interval = FALSE
    /\ upstream \in KeyDeployments
    /\ engineReqs = [auto |-> 0, manual |-> 0]
    /\ cycles = <<>>
    /\ cycleLog = {}
    /\ reading = DefaultReading
    /\ built = NotBuilt
    /\ random \in Draws
    /\ listening = FALSE
    /\ dispatched = <<>>
    /\ proxy = NoPost

Keys == InitKeys /\ [][NextA]_vars

\* the bodies POST is probed with: one that is not JSON, the JSON value null, and
\* objects with and without the two keys
ProbeRequests ==
    {[parsed |-> k, subsystem |-> None, sequence |-> Json("absent", 0)] : k \in {"unparseable", "null"}}
    \cup
    [parsed : {"object"},
     subsystem : {None, Some(""), Some("engine"), Some("hydraulic"), Some("altimeter"), Some("fuel")},
     sequence : {Json("absent", 0), Json("null", 0), Json("number", 0), Json("string", 0),
                 Json("string", ENGINE_FEATURES), Json("string", SEQUENCE_LENGTH)}
                \cup {Json("array", n) : n \in {0, 23, 24, 25, 49, 50, 51}}]

\* what the remote service does with the request of the proxy: a JSON body with a
\* success status, a success status with a body that is not JSON, an error status, no answer
UpstreamAnswers == {"ok_json", "ok_not_json", "http_error", "network_error"}

\* POST up to its fetch: the validation answers, or the request to the remote service
\* is sent
ProxyPost ==
    /\ proxy.phase = "received"
    /\ LET status == Validate(proxy.request)
       IN  proxy' = IF status # 0
                    THEN [proxy EXCEPT !.phase = "answered", !.status = status]
                    ELSE [proxy EXCEPT !.phase = "calling",
                                       !.calls = Append(@, [path |-> proxy.request.subsystem[1],
                                                            sequence |-> proxy.request.sequence])]
    /\ UNCHANGED <<isSimulating, isPaused, simulationTime, currentSpeed, alertLevel, lastRUL,
                   enginePrediction, subsystemPredictions, loading, error, interval,
                   upstream, engineReqs, cycles, cycleLog, reading, built, random, listening,
                   dispatched>>

\* POST after its fetch has settled
ProxyRelay ==
    /\ proxy.phase = "calling"
    /\ proxy' = [proxy EXCEPT !.phase = "answered", !.status = RelayStatus(proxy.answers),
                              !.relayed = (RelayStatus(proxy.answers) = 200)]
    /\ UNCHANGED <<isSimulating, isPaused, simulationTime, currentSpeed, alertLevel, lastRUL,
                   enginePrediction, subsystemPredictions, loading, error, interval,
                   upstream, engineReqs, cycles, cycleLog, reading, built, random, listening,
                   dispatched>>

InitProxy ==
    /\ isSimulating = FALSE
    /\ isPaused = FALSE
    /\ simulationTime = 0
    /\ currentSpeed = 0
    /\ alertLevel = "safe"
    /\ lastRUL = None
    /\ enginePrediction = None
    /\ subsystemPredictions = <<>>
    /\ loading = FALSE
    /\ error = "null"
    /\ interval = FALSE
    /\ upstream = Failing
    /\ engineReqs = [auto |-> 0, manual |-> 0]
    /\ cycles = <<>>
    /\ cycleLog = {}
    /\ reading = DefaultReading
    /\ built = NotBuilt
    /\ random \in Draws
    /\ listening = FALSE
    /\ dispatched = <<>>
    /\ \E request \in ProbeRequests, answers \in UpstreamAnswers :
          proxy = [NoPost EXCEPT !.request = request, !.answers = answers, !.phase = "received"]

NextProxy == ProxyPost \/ ProxyRelay

Proxy == InitProxy /\ [][NextProxy]_vars

\* the names createSubsystemSequence is probed with: the five of subsystemAPIs and one
\* it does not know
BuilderNames == {"hydraulic", "electrical", "control_surface", "cabin", "altimeter", "fuel"}

\* the values probed for one sensor
ProbeValues == {Fin(0), Fin(-1000000000), Fin(2000000000), NaN, PlusInfinity, MinusInfinity}

\* the default readings with one or two sensors replaced
ProbeReadings ==
    {[[DefaultReading EXCEPT ![f] = v] EXCEPT ![g] = w] :
        f \in {"hydraulic_pressure", "electrical_current", "cabin_pressure"},
        g \in {"hydraulic_temp", "control_surface_deflection", "altimeter_drift"},
        v \in ProbeValues \cup {Fin(3000000)}, w \in ProbeValues \cup {Fin(2000)}}

\* createSubsystemSequence(name) and the check at the head of the loop of
\* predictSubsystemRUL; applied once per behaviour, the result depending on the
\* name, the readings and the draw alone
BuildSequence ==
    /\ built = NotBuilt
    /\ \E name \in BuilderNames, r \in {0, 50, 99} :
          LET sequence == createSubsystemSequence(name, reading, r)
          IN  built' = [name |-> name, sequence |-> sequence, called |-> FetchIssued(sequence)]
    /\ UNCHANGED <<isSimulating, isPaused, simulationTime, currentSpeed, alertLevel, lastRUL,
                   enginePrediction, subsystemPredictions, loading, error, interval,
                   upstream, engineReqs, cycles, cycleLog, reading, random, listening,
                   dispatched, proxy>>

InitBuilder ==
    /\ isSimulating = FALSE
    /\ isPaused = FALSE
    /\ simulationTime = 0
    /\ currentSpeed = 0
    /\ alertLevel = "safe"
    /\ lastRUL = None
    /\ enginePrediction = None
    /\ subsystemPredictions = <<>>
    /\ loading = FALSE
    /\ error = "null"
    /\ interval = FALSE
    /\ upstream = Failing
    /\ engineReqs = [auto |-> 0, manual |-> 0]
    /\ cycles = <<>>
    /\ cycleLog = {}
    /\ reading \in ProbeReadings
    /\ built = NotBuilt
    /\ random \in Draws
    /\ listening = FALSE
    /\ dispatched = <<>>
    /\ proxy = NoPost

Builder == InitBuilder /\ [][BuildSequence]_vars

TypeOK ==
    /\ isSimulating \in BOOLEAN
    /\ isPaused \in BOOLEAN
    /\ simulationTime \in 0..(SIM_DURATION + 1)
    /\ loading \in BOOLEAN
    /\ interval \in BOOLEAN
    /\ alertLevel \in {"safe", "warning", "danger"}
    /\ \A i \in 1..Len(cycles) : cycles[i].age \in 0..MaxLag

----------------------------------------------------------------------------
(* Properties of the simulation clock *)

CycleTimes == {t \in 1..SIM_DURATION : t % PREDICT_EVERY = 0}

\* time, speed, risk and predictions are cleared and the clock is idle
Cleared ==
    /\ ~isSimulating
    /\ ~isPaused
    /\ simulationTime = 0
    /\ currentSpeed = 0
    /\ alertLevel = "safe"
    /\ enginePrediction = None
    /\ subsystemPredictions = <<>>

\* C1: the step that ends a run from time 50 with the timer armed (the 51st tick)
\* leads to Idle with time, speed, risk and predictions cleared; simulationTime is 0.
C1_CompletionClearsAll ==
    [][(interval /\ simulationTime = SIM_DURATION /\ ~isSimulating') => Cleared']_vars

\* C2: simulation time is a natural number; a step leaves it unchanged, adds exactly 1
\* (only with the timer armed, Running and not Paused) or resets it to 0 (only together
\* with a change of isSimulating: start, stop, completion); while Paused the timer is
\* not armed and the time does not change.
C2_TimeSteps ==
    [][/\ simulationTime' \in Nat
       /\ \/ simulationTime' = simulationTime
          \/ simulationTime' = simulationTime + 1 /\ interval /\ isSimulating /\ ~isPaused
          \/ simulationTime' = 0 /\ isSimulating' # isSimulating
       /\ isPaused' => ~interval'
       /\ (isPaused /\ isPaused') => simulationTime' = simulationTime]_vars

\* Scenario C: paused at t = 20
C2_Witness == isPaused /\ simulationTime = 20 /\ ~interval

\* C3: a step starts a prediction cycle (a new predictSubsystemRUL call together with
\* an engine request) iff it is a tick whose new time is a multiple of 3 and at most
\* 50; a run that reached 51 has started cycles exactly at 3, 6, ..., 48.
C3_Cadence ==
    [][LET newTime == simulationTime + 1
           isTick == interval /\ simulationTime' = newTime
           started == Len(cycles') > Len(cycles)
       IN  /\ started <=> (isTick /\ newTime % PREDICT_EVERY = 0 /\ newTime <= SIM_DURATION)
           /\ started => /\ Len(cycles') = Len(cycles) + 1
                         /\ cycles'[Len(cycles')].time = newTime
                         /\ cycles'[Len(cycles')].idx = 1
                         /\ engineReqs'.auto = engineReqs.auto + 1
                         /\ cycleLog' = cycleLog \cup {newTime}
           /\ engineReqs'.auto > engineReqs.auto => started
           /\ simulationTime' = SIM_DURATION + 1 =>
                 cycleLog' = CycleTimes /\ Cardinality(cycleLog') = 16]_vars

\* an uninterrupted run has ended at 51 after its 16 cycles
C3_Witness == simulationTime = SIM_DURATION + 1 /\ cycleLog = CycleTimes /\ ~isSimulating

\* C4: a step that takes isSimulating from false to true (start) ends Running, not
\* paused, timer armed, with time 0, speed 0, risk safe and no predictions; a step that
\* stays in a run never moves the time backwards (start acts only from Idle).
C4_StartResets ==
    [][/\ (~isSimulating /\ isSimulating') =>
              /\ ~isPaused' /\ interval'
              /\ simulationTime' = 0 /\ currentSpeed' = 0 /\ alertLevel' = "safe"
              /\ enginePrediction' = None /\ subsystemPredictions' = <<>>
       /\ (isSimulating /\ isSimulating') => simulationTime' >= simulationTime]_vars

\* a run just started after an earlier run had received an engine prediction
C4_Witness ==
    /\ isSimulating /\ ~isPaused /\ simulationTime = 0
    /\ lastRUL # None /\ enginePrediction = None /\ subsystemPredictions = <<>>

\* C5: a step that takes isSimulating from true to false, other than the completion
\* that leaves the time at 51, ends in the cleared Idle state with the timer
\* disarmed; in Idle the timer stays disarmed and the time does not advance.
C5_StopClears ==
    [][/\ (isSimulating /\ ~isSimulating' /\ simulationTime' # SIM_DURATION + 1) => Cleared'
       /\ ~isSimulating' => ~interval'
       /\ (~isSimulating /\ ~isSimulating') => simulationTime' = simulationTime]_vars

\* stopped while the cycle of t = 21 was still collecting
C5_Witness ==
    /\ ~isSimulating /\ simulationTime = 0 /\ cycles # <<>>
    /\ cycles[1].time = 21 /\ cycles[1].idx = 3

----------------------------------------------------------------------------
(* Properties of the prediction results *)

\* C6: results that arrive after the run they were requested in has ended are not
\* applied: in Idle the subsystem prediction list stays empty, and a run never shows
\* a list whose cycle lies ahead of its own clock (a list requested by an earlier run).
C6_StaleResultsDiscarded ==
    /\ ~isSimulating => subsystemPredictions = <<>>
    /\ \A k \in 1..Len(subsystemPredictions) : subsystemPredictions[k].cycle <= simulationTime

\* C7 as stated: between pause() and resume() no prediction request is issued and
\* neither the engine prediction nor the subsystem prediction list changes.
C7_NoPredictionsWhilePaused ==
    [][(isPaused /\ isPaused') =>
           /\ enginePrediction' = enginePrediction
           /\ subsystemPredictions' = subsystemPredictions
           /\ engineReqs'.auto <= engineReqs.auto
           /\ engineReqs'.manual <= engineReqs.manual
           /\ Len(cycles') <= Len(cycles)]_vars

\* C7 amended: while Paused the timer is disarmed: time and speed do not change, no
\* prediction cycle and no automatic engine request is started; the engine prediction
\* changes only when a pending engine request (issued before the pause or by Manual
\* Predict) delivers, and the subsystem list only when a pending cycle publishes.
C7_PausedTimerIssuesNothing ==
    [][(isPaused /\ isPaused') =>
           /\ ~interval /\ ~interval'
           /\ simulationTime' = simulationTime
           /\ currentSpeed' = currentSpeed
           /\ engineReqs'.auto <= engineReqs.auto
           /\ Len(cycles') <= Len(cycles)
           /\ enginePrediction' # enginePrediction => PendingEngineReqs' < PendingEngineReqs
           /\ subsystemPredictions' # subsystemPredictions => Len(cycles') < Len(cycles)]_vars

\* Paused with a manual prediction in flight and a published list on display
C7_Witness ==
    /\ isPaused /\ engineReqs.manual > 0
    /\ subsystemPredictions # <<>> /\ simulationTime = 20

Severity(level) == IF level = "danger" THEN 2 ELSE IF level = "warning" THEN 1 ELSE 0

\* the tiers a snapshot holds: the engine's own (if any) and the subsystems' risk tiers
TiersOf(snapshot) ==
    (IF snapshot.rulValue = None THEN {} ELSE {EngineTier(snapshot.rulValue[1])})
    \cup {snapshot.subsystemPredictions[k].risk_level : k \in 1..Len(snapshot.subsystemPredictions)}

WorstTier(snapshot) ==
    IF TiersOf(snapshot) = {} THEN "safe"
    ELSE CHOOSE t \in TiersOf(snapshot) : \A u \in TiersOf(snapshot) : Severity(u) <= Severity(t)

\* C8: in every snapshot of a running simulation the alert level is the worst tier
\* among the engine's classification and the risk tiers of the subsystem predictions
\* held, also without an engine prediction and with a flagged failure at a high RUL.
C8_AlertIsWorstTier ==
    Snapshot.isSimulating => Snapshot.alertLevel = WorstTier(Snapshot)

\* the entry the fallback generator yields for a failed call of subsystem name
IsFallbackOf(entry, name, time, kind) ==
    \E r1 \in RandVals, r2 \in RandVals :
        entry = IF kind = "http_error" THEN HttpErrorPrediction(name, time, r1, r2)
                ELSE NetworkErrorPrediction(name, time, r1, r2)

\* a valid PredictionResult of subsystem name for cycle time
ValidPrediction(entry, name, time) ==
    /\ entry.subsystem = name
    /\ entry.cycle = time
    /\ entry.rul \in 1..15000
    /\ entry.risk_level \in {"safe", "warning", "danger"}
    /\ entry.status = StatusOf(entry.risk_level)

\* entries 1..n of a cycle are those of the first n subsystems, in order, and the
\* entry of a subsystem whose call failed is the fallback generator's
EntriesComplete(preds, n, time) ==
    /\ Len(preds) = n
    /\ \A k \in 1..n :
          LET name == SubsystemNames[k]
          IN  /\ ValidPrediction(preds[k], name, time)
              /\ upstream[name].kind # "ok" =>
                     /\ IsFallbackOf(preds[k], name, time, upstream[name].kind)
                     /\ preds[k].rul >= FALLBACK_MIN

\* C9: every pending cycle holds one entry per subsystem already awaited, and every
\* list a step publishes one per subsystem, a failed call contributing its fallback entry; a
\* step in which a subsystem call settles (failed or not) moves the cycle on to the
\* next subsystem or publishes, and leaves isSimulating, isPaused, the timer, the
\* time and the error banner as they were; the banner is only ever set by a failed
\* engine call.
C9_SubsystemFailureHandled ==
    [][LET settles == cycles' # cycles /\ simulationTime' = simulationTime
       IN  /\ cycles' # cycles =>
                 \A i \in 1..Len(cycles') :
                     EntriesComplete(cycles'[i].preds, cycles'[i].idx - 1, cycles'[i].time)
           /\ (subsystemPredictions' # subsystemPredictions /\ subsystemPredictions' # <<>>) =>
                 EntriesComplete(subsystemPredictions', NumSubsystems, subsystemPredictions'[1].cycle)
           /\ settles =>
                 /\ isSimulating' = isSimulating /\ isPaused' = isPaused
                 /\ interval' = interval /\ error' = error /\ loading' = loading
                 /\ \/ Len(cycles') = Len(cycles)
                    \/ Len(cycles') = Len(cycles) - 1 /\ Len(subsystemPredictions') = NumSubsystems
           /\ error' # "null" => upstream["engine"].kind # "ok"]_vars

\* a running simulation shows a list with fallback entries for an HTTP failure
\* (hydraulic) and a thrown fetch (control_surface), and no error banner
C9_Witness ==
    /\ upstream = MixedB /\ isSimulating /\ error = "null"
    /\ Len(subsystemPredictions) = NumSubsystems
    /\ subsystemPredictions[1].cycle = 24
    /\ IsFallbackOf(subsystemPredictions[1], "hydraulic", 24, "http_error")
    /\ IsFallbackOf(subsystemPredictions[3], "control_surface", 24, "network_error")

\* C10, under ScenarioA: the cycles of t = 3, 6, ..., 48 are published before the run
\* ends; a cycle leaves the pending calls only by publishing its list, so once the
\* simulation is Idle no predictSubsystemRUL call is still pending.
C10_PublishedBeforeEnd == ~isSimulating => cycles = <<>>

----------------------------------------------------------------------------
(* Properties of the broadcast snapshots and of the classification *)

\* C11, under Observed (the engine endpoint answers {"prediction": 15}): while the
\* simulation runs with that engine prediction the alert level is danger, and every
\* snapshot delivered for a running simulation that carries the prediction has
\* alertLevel danger, whatever the subsystem results and whether or not it is the
\* first engine prediction received.
C11_DangerInSnapshots ==
    /\ (isSimulating /\ enginePrediction = Some(1500)) => alertLevel = "danger"
    /\ \A k \in 1..Len(Broadcasts) :
           (Broadcasts[k].isSimulating /\ Broadcasts[k].rulValue = Some(1500)) =>
               Broadcasts[k].alertLevel = "danger"

\* every entry a pending cycle has collected and every published entry
HeldEntries ==
    {subsystemPredictions[k] : k \in 1..Len(subsystemPredictions)}
    \cup UNION {{cycles[i].preds[k] : k \in 1..Len(cycles[i].preds)} : i \in 1..Len(cycles)}

\* C12, under Probe: every prediction held has RUL >= 1 (100 hundredths): the engine
\* prediction and every subsystem entry, from a successful response or the fallback.
C12_RulAtLeastOne ==
    /\ enginePrediction # None => enginePrediction[1] >= 100
    /\ \A e \in HeldEntries : e.rul >= 100

\* the fallback generator flagged a failure: failure_probability is 1.0
Flagged(entry) == entry.failure_probability = 60

\* the tier the published RUL maps to with the subsystem thresholds 25 and 60
TierOfPublished(entry) ==
    IF entry.rul < SUB_DANGER \/ Flagged(entry) THEN "danger"
    ELSE IF entry.rul < SUB_WARNING THEN "warning"
    ELSE "safe"

\* C13, under Probe: every published subsystem prediction carries the tier its
\* published RUL (and failure flag) maps to, and the status label of that tier.
C13_TierMatchesPublishedRul ==
    \A k \in 1..Len(subsystemPredictions) :
        /\ subsystemPredictions[k].risk_level = TierOfPublished(subsystemPredictions[k])
        /\ subsystemPredictions[k].status = StatusOf(subsystemPredictions[k].risk_level)

C15_EngineFallback ==
    [][(isSimulating /\ isSimulating' /\ engineReqs'.auto < engineReqs.auto) =>
           (enginePrediction' # None /\ error' = "null")]_vars

----------------------------------------------------------------------------
(* Properties of the controls *)

Mode == IF ~isSimulating THEN "Idle" ELSE IF isPaused THEN "Paused" ELSE "Running"

\* C17: isPaused implies isSimulating, so the clock is Idle, Running or Paused; a step
\* changes the clock state only along Idle -> Running (start), Running -> Paused
\* (pause), Paused -> Running (resume) and Running or Paused -> Idle (stop,
\* completion); time advances only in Running.
C17_ClockStates ==
    [][/\ isPaused' => isSimulating'
       /\ Mode' # Mode =>
              <<Mode, Mode'>> \in {<<"Idle", "Running">>, <<"Running", "Paused">>,
                                   <<"Paused", "Running">>, <<"Running", "Idle">>,
                                   <<"Paused", "Idle">>}
       /\ simulationTime' = simulationTime + 1 => Mode = "Running"]_vars

\* paused in the last second of a run
C17_Witness == Mode = "Paused" /\ simulationTime = SIM_DURATION /\ ~interval

\* the channel count of a subsystem's rows
Channels(name) ==
    IF name = "hydraulic" THEN 3
    ELSE IF name = "electrical" THEN 2
    ELSE 1

\* C18: for every name and every sensor reading the builder returns either an empty
\* array or exactly 50 rows, each with the subsystem's channel count (hydraulic 3,
\* electrical 2, the others 1) and finite values only; the caller reaches the fetch
\* only for a non-empty result.
C18_SequenceWellFormed ==
    /\ \/ built.sequence = <<>>
       \/ /\ Len(built.sequence) = SEQUENCE_LENGTH
          /\ \A i \in 1..Len(built.sequence) :
                /\ Len(built.sequence[i]) = Channels(built.name)
                /\ \A j \in 1..Len(built.sequence[i]) : IsFinite(built.sequence[i][j])
    /\ built.sequence = <<>> => ~built.called

\* a hydraulic sequence was asked for while the temperature reading was NaN: the
\* result is empty and no call is issued
C18_Witness ==
    /\ built.name = "hydraulic"
    /\ reading.hydraulic_temp = NaN
    /\ built.sequence = <<>>
    /\ ~built.called

\* a step of the timer: the time advances by one, or the run ends from time 50
TickStep ==
    /\ interval
    /\ \/ simulationTime' = simulationTime + 1
       \/ simulationTime = SIM_DURATION /\ ~isSimulating'

\* C19 as stated, under Observed: while the timer stays armed a step dispatches events
\* only if it is a tick, and a tick dispatches exactly one event, whose payload is the
\* state after the tick.
C19_OnePerTick ==
    [][/\ TickStep => Len(dispatched') = 1 /\ Broadcasts'[1] = Snapshot'
       /\ (interval /\ interval' /\ ~TickStep) => dispatched' = <<>>]_vars

\* C19 amended, under Observed: every tick dispatches exactly one simulationUpdate
\* event, whose payload is the state after the tick; events are dispatched by other
\* steps too (whenever a field of the snapshot changes), the last event of a step
\* carries the state after the step, and a step that dispatches none leaves the
\* snapshot as it was.
C19_TickBroadcastsOnce ==
    [][/\ TickStep => Len(dispatched') = 1 /\ Broadcasts'[1] = Snapshot'
       /\ dispatched' # <<>> => Broadcasts'[Len(dispatched')] = Snapshot'
       /\ dispatched' = <<>> => Snapshot' = Snapshot]_vars

\* the tick to time 3 has just started a prediction cycle and dispatched its event
C19_Witness ==
    /\ listening
    /\ interval
    /\ simulationTime = 3
    /\ Len(cycles) = 1 /\ cycles[1].age = 0 /\ cycles[1].idx = 1
    /\ Len(dispatched) = 1 /\ Broadcasts[1] = Snapshot

\* C20: in every reachable state the speed is the fixed function of the simulation
\* time, 175 * min(simulationTime, 45) / 45 knots (here in 1/45 knot); it is therefore
\* 0 exactly when the time is 0.
C20_SpeedFollowsTime ==
    /\ currentSpeed = V1_SPEED * Min(simulationTime, V1_TIME)
    /\ currentSpeed = 0 <=> simulationTime = 0

\* the value of the first of predicted_RUL, predicted_{target}_output, prediction, rul
\* that the body has (0 when it has none)
FirstPresent(body) ==
    IF body.predicted_RUL # None THEN body.predicted_RUL[1]
    ELSE IF body.predicted_output # None THEN body.predicted_output[1]
    ELSE IF body.prediction # None THEN body.prediction[1]
    ELSE IF body.rul # None THEN body.rul[1]
    ELSE 0

\* C21, under Keys (every call succeeds): the raw value of every target is the value of
\* the first key present in the order predicted_RUL, predicted_{target}_output,
\* prediction, rul: the engine prediction stored is that value, and every subsystem
\* entry held is the one the normalisation yields for that value.
C21_FirstPresentKey ==
    /\ enginePrediction # None => enginePrediction[1] = FirstPresent(upstream["engine"].body)
    /\ \A e \in HeldEntries :
          e = SuccessPrediction(e.subsystem, SubBody(FirstPresent(upstream[e.subsystem].body)),
                                e.cycle, random.jitter)

\* the body has both keys and its sequence is an array of the length its subsystem
\* requires: 24 for the engine, 50 for any other
WellFormed(request) ==
    /\ request.parsed = "object"
    /\ request.subsystem # None
    /\ request.subsystem # Some("")
    /\ request.sequence.kind = "array"
    /\ request.sequence.len = (IF request.subsystem = Some("engine") THEN 24 ELSE 50)

\* C22, under Proxy: a POST whose body is not well formed is answered with 400, and no
\* request to the remote service is sent for it.
C22_InvalidRejected ==
    (proxy.phase # "received" /\ ~WellFormed(proxy.request)) =>
        proxy.status = 400 /\ proxy.calls = <<>>

\* C23 as stated, under Proxy: for a well-formed request exactly one request goes to
\* /predict/{subsystem} with the sequence as its body; a successful answer of the
\* remote service is relayed with status 200, any other outcome gives 500; no 400 is
\* answered once the remote service was called.
C23_RelaysSuccess ==
    /\ (WellFormed(proxy.request) /\ proxy.phase # "received") =>
          /\ proxy.calls = <<[path |-> proxy.request.subsystem[1], sequence |-> proxy.request.sequence]>>
          /\ proxy.phase = "answered" =>
                IF proxy.answers \in {"ok_json", "ok_not_json"}
                THEN proxy.status = 200 /\ proxy.relayed
                ELSE proxy.status = 500 /\ ~proxy.relayed
    /\ proxy.calls # <<>> => proxy.status # 400

\* C23 amended, under Proxy: for a well-formed request exactly one request goes to
\* /predict/{subsystem} with the sequence as its body; a successful answer with a JSON
\* body is relayed with status 200; an error status, a call that throws and a
\* successful answer whose body is not JSON give 500; no 400 is answered once the
\* remote service was called.
C23_RelaysJson ==
    /\ (WellFormed(proxy.request) /\ proxy.phase # "received") =>
          /\ proxy.calls = <<[path |-> proxy.request.subsystem[1], sequence |-> proxy.request.sequence]>>
          /\ proxy.phase = "answered" =>
                IF proxy.answers = "ok_json"
                THEN proxy.status = 200 /\ proxy.relayed
                ELSE proxy.status = 500 /\ ~proxy.relayed
    /\ proxy.calls # <<>> => proxy.status # 400

\* an engine request of 24 features was sent on and the error status of the remote
\* service has been answered with 500
C23_Witness ==
    /\ proxy.phase = "answered"
    /\ proxy.request.subsystem = Some("engine")
    /\ proxy.answers = "http_error"
    /\ Len(proxy.calls) = 1 /\ proxy.calls[1].sequence = Json("array", 24)
    /\ proxy.status = 500

\* the subsystems whose fetch a pending predictSubsystemRUL call has issued so far: the
\* loop awaits each fetch before it goes on to the next subsystem
IssuedCalls(c) == 1..c.idx

\* C24: the five subsystem calls of a cycle are independent: while a cycle is pending
\* all five of its calls have been issued, whichever of them is still awaited, and
\* every entry it has collected is on display (when no other cycle is pending).
C24_CallsIndependent ==
    \A i \in 1..Len(cycles) :
        /\ IssuedCalls(cycles[i]) = 1..NumSubsystems
        /\ (Len(cycles) = 1 /\ isSimulating) =>
              \A k \in 1..Len(cycles[i].preds) :
                  \E j \in 1..Len(subsystemPredictions) : subsystemPredictions[j] = cycles[i].preds[k]

\* C25, under ScenarioA (the timer is armed once, by start(), and its callback reads
\* the sensor readings of that render): a step that starts a prediction cycle sends
\* data built from the current readings, so the readings captured at start() are not
\* outdated at that step.
C25_CycleSendsCurrentReadings ==
    [][Len(cycles') > Len(cycles) => ~OutdatedSinceStart]_vars

\* the cycle number of the subsystem prediction set on display, 0 when it is empty
DisplayedCycle(preds) == IF preds = <<>> THEN 0 ELSE preds[1].cycle

\* C26: within one run (a step that neither starts nor ends a run) the cycle number of
\* the displayed subsystem predictions does not decrease, and it never exceeds the
\* simulation time of a running simulation.
C26_DisplayedCycleMonotone ==
    [][(isSimulating /\ isSimulating') =>
          /\ DisplayedCycle(subsystemPredictions') >= DisplayedCycle(subsystemPredictions)
          /\ DisplayedCycle(subsystemPredictions') <= simulationTime']_vars

\* the position of a subsystem in subsystemAPIs
Position(name) == CHOOSE k \in 1..NumSubsystems : SubsystemNames[k] = name

\* C27: the subsystem prediction list is empty or holds entries of one cycle, at most
\* one per subsystem, in the order hydraulic, electrical, control_surface, cabin,
\* altimeter; a cycle that is still collecting shows none of its entries unless the
\* same entries were published by a finished cycle.
C27_PublishedAtomically ==
    /\ \A j \in 1..Len(subsystemPredictions) :
          /\ subsystemPredictions[j].cycle = subsystemPredictions[1].cycle
          /\ subsystemPredictions[j].subsystem \in {SubsystemNames[k] : k \in 1..NumSubsystems}
    /\ \A j, k \in 1..Len(subsystemPredictions) :
          j < k => Position(subsystemPredictions[j].subsystem) < Position(subsystemPredictions[k].subsystem)
    /\ \A i \in 1..Len(cycles) :
          Len(cycles[i].preds) \in 1..(NumSubsystems - 1) => subsystemPredictions # cycles[i].preds

\* a full list of one cycle is on display while the next cycle is still collecting
C27_Witness ==
    /\ Len(subsystemPredictions) = NumSubsystems
    /\ \E i \in 1..Len(cycles) :
          /\ cycles[i].time > subsystemPredictions[1].cycle
          /\ Len(cycles[i].preds) \in 1..(NumSubsystems - 1)

\* C28: in every state in which the simulation is Running or Paused the stop action
\* is enabled, also while an engine prediction request is in flight.
C28_StopAlwaysAvailable == isSimulating => StopEnabled

\* the entries held for a subsystem whose endpoint answers 200 with a body that has
\* none of the prediction keys
KeylessEntries == {e \in HeldEntries : upstream[e.subsystem] = Ok(EmptyBody)}

\* C29 as stated, under Probe: the entry for a successful response without any
\* prediction key is not critical: its tier is not danger.
C29_KeylessNotCritical == \A e \in KeylessEntries : e.risk_level # "danger"

\* C29 amended, under Probe: the entry for a successful response without any prediction
\* key comes from the ordinary normalisation of the raw value 0 (no fallback entry, no
\* error): its RUL is 1.0, its tier danger, its status Critical Condition and its
\* failure probability 0.8.
C29_KeylessIsCritical ==
    /\ \A e \in KeylessEntries :
          /\ e = SuccessPrediction(e.subsystem, SubBody(0), e.cycle, random.jitter)
          /\ e.rul = 100
          /\ e.risk_level = "danger"
          /\ e.status = "Critical Condition"
          /\ e.failure_probability = 48
    /\ upstream = ProbeLow => error = "null"

\* the cabin endpoint answered {} and the cycle has been published
C29_Witness ==
    /\ upstream = ProbeLow
    /\ Len(subsystemPredictions) = NumSubsystems
    /\ subsystemPredictions[4] \in KeylessEntries
    /\ subsystemPredictions[4].rul = 100

\* the alert the classifier's thresholds call for: critical below 25, moderate in [25, 60)
Expected(prediction) ==
    IF prediction.rul < SUB_DANGER THEN "critical"
    ELSE IF prediction.rul < SUB_WARNING THEN "moderate"
    ELSE "none"

\* the subsystem alerts of an alert list agree with the classifier for the snapshot data
Agrees(alerts, data) ==
    \A j \in 1..Len(data.subsystemPredictions) :
        alerts.subsystems[j] = IF data.isSimulating THEN Expected(data.subsystemPredictions[j]) ELSE "none"

\* C30, under Observed: for every snapshot delivered, either sidebar shows a critical
\* alert for a subsystem prediction iff its RUL is below 25, a moderate alert iff its
\* RUL is in [25, 60) and none otherwise; for a snapshot with isSimulating false the
\* list has no alert.
C30_SidebarAgrees ==
    \A k \in 1..Len(Broadcasts) :
        /\ Agrees(SubsystemSidebarAlerts(Broadcasts[k]), Broadcasts[k])
        /\ \A alerts \in {"none", "moderate", "critical"} :
              Agrees(EngineSidebarAlerts(Broadcasts[k], alerts), Broadcasts[k])

====
